---- MODULE Spec2Model ----
(***************************************************************************)
(* Model of the education extension: the batch generator of School Term    *)
(* Result records (generate_class_results), the result populator           *)
(* (populate_student_result) and the Assessment Criteria validation hook   *)
(* (validate_assessment_criteria).                                         *)
(*                                                                         *)
(* Conventions.                                                            *)
(*  - A document field that Python leaves at None is the empty sequence    *)
(*    <<>>; a field holding v is <<v>>.                                    *)
(*  - Marks (total_score, score, maximum_score) are whole numbers.         *)
(*  - A value the code rounds to two decimals (class_average_score,        *)
(*    term_average) is held in hundredths: 85.0 is 8500.                   *)
(*  - A database table is the sequence of its rows in the order a query    *)
(*    without a deciding ORDER BY lists them.                              *)
(*  - Pass-through fields no statement here is about (term dates, gender,  *)
(*    the per-subject letter grade, the program-wide counts and rank) are  *)
(*    left out of the documents.                                           *)
(***************************************************************************)
EXTENDS Integers, Sequences, FiniteSets, TLC

VARIABLES
    settings,       \* the School Settings record
    sgsTable,       \* rows of `tabStudent Group Student`
    arTable,        \* rows of `tabAssessment Result`, each with its detail rows
    generator_doc,  \* the School Term Class Result Generator document
    committed,      \* School Term Result records made durable by a commit
    pending,        \* School Term Result records inserted, not yet committed
    pc,             \* position of the current generate_class_results call
    students,       \* the enrollment listing of the current call
    idx,            \* index in `students` of the student being processed
    startLen,       \* Len(committed) when the current call began
    runs,           \* calls of generate_class_results started so far
    completed,      \* calls of generate_class_results that ran to the end
    msgs,           \* frappe.msgprint notices of the current / last call
    raised,         \* the error the last call raised, "" when none
    doc,            \* the document handed to the last populate / validate call
    call            \* which entry point ran last

vars == <<settings, sgsTable, arTable, generator_doc, committed, pending, pc,
          students, idx, startLen, runs, completed, msgs, raised, doc, call>>

-----------------------------------------------------------------------------
(* Bounds of the model *)

MaxRuns == 2
MaxRows == 3
MaxResults == 3
MaxGradeResults == 2
MaxBands == 2
MaxItems == 3

(* Universes the inputs are drawn from *)

Students == {"s1", "s2", "s3"}
Groups == {"g1", "g2"}
CourseOrder == <<"c1", "c2">>          \* ascending, as ORDER BY ar.course lists them
Courses == {CourseOrder[i] : i \in 1..Len(CourseOrder)}
AssessmentGroup == "ag1"
AcademicYear == "2025"
AcademicTerm == "t1"
CriteriaNames == {"Exam", "Test", "Quiz"}

-----------------------------------------------------------------------------
(* Generic helpers *)

RECURSIVE SeqSum(_)
SeqSum(s) == IF s = <<>> THEN 0 ELSE Head(s) + SeqSum(Tail(s))

RECURSIVE Flatten(_)
Flatten(ss) == IF ss = <<>> THEN <<>> ELSE Head(ss) \o Flatten(Tail(ss))

SeqMax(s) == CHOOSE m \in {s[i] : i \in 1..Len(s)} : \A j \in 1..Len(s) : s[j] <= m
SeqMin(s) == CHOOSE m \in {s[i] : i \in 1..Len(s)} : \A j \in 1..Len(s) : s[j] >= m

\* All sequences over S of length at most n
SeqsUpTo(S, n) == UNION {[1..k -> S] : k \in 0..n}

\* ... whose entries are pairwise different
DistinctSeqsUpTo(S, n) ==
    {s \in SeqsUpTo(S, n) : \A i, j \in 1..Len(s) : i # j => s[i] # s[j]}

-----------------------------------------------------------------------------
(* Conversions *)

Digits == <<"0", "1", "2", "3", "4", "5", "6", "7", "8", "9">>

\* str(n) of a non-negative integer: its decimal digits
RECURSIVE str(_)
str(n) == IF n < 10 THEN Digits[n + 1]
          ELSE str(n \div 10) \o Digits[(n % 10) + 1]

\* round(n / d, 0) for n >= 0, d > 0: the nearest integer, a tie going to the
\* even one.  round(x, 2) of the code is round_(100 * numerator, denominator)
\* read in hundredths.
round_(n, d) ==
    LET q == n \div d
        r == n % d
    IN  IF 2 * r < d THEN q
        ELSE IF 2 * r > d THEN q + 1
        ELSE IF q % 2 = 0 THEN q ELSE q + 1

-----------------------------------------------------------------------------
(* populate_student_result: the queries *)

\* A new School Term Result document: every field unset.
new_doc ==
    [student |-> <<>>, assessment_group |-> <<>>, academic_year |-> <<>>,
     academic_term |-> <<>>, student_admission_id |-> <<>>,
     student_group |-> <<>>, number_of_students_in_class_group |-> <<>>,
     subjects |-> <<>>, assessment_components |-> <<>>,
     total_marks_obtained |-> <<>>, total_max_marks |-> <<>>,
     term_average |-> <<>>, overall_grade |-> <<>>,
     class_arm_position |-> <<>>]

\* get_all("Student Group Student", filters={"student": s}, fields=["parent"])
sgs_of_student(s) == SelectSeq(sgsTable, LAMBDA r : <<r.student>> = s)

\* get_all / count of "Student Group Student" with filters={"parent": g}
sgs_of_parent(g) == SelectSeq(sgsTable, LAMBDA r : <<r.parent>> = g)

\* The WHERE clause shared by the Assessment Result queries.
ar_filter(r, d) ==
    /\ <<r.assessment_group>> = d.assessment_group
    /\ <<r.academic_term>> = d.academic_term
    /\ <<r.academic_year>> = d.academic_year
    /\ r.docstatus \in {0, 1}

\* Joined rows of one course and one detail idx, in table order.
rows_at(res, c, i) ==
    LET rs == SelectSeq(res, LAMBDA r : r.course = c /\ Len(r.details) >= i)
    IN  [k \in 1..Len(rs) |->
            [course |-> c,
             total_score |-> rs[k].total_score,
             assessment_criteria |-> rs[k].details[i].assessment_criteria,
             score |-> rs[k].details[i].score,
             maximum_score |-> rs[k].details[i].maximum_score]]

\* Assessment Result INNER JOIN Assessment Result Detail of the student,
\* ORDER BY ar.course, ard.idx.
detailed_results(d) ==
    LET res == SelectSeq(arTable,
                   LAMBDA r : <<r.student>> = d.student /\ ar_filter(r, d))
        n   == IF res = <<>> THEN 0
               ELSE SeqMax([k \in 1..Len(res) |-> Len(res[k].details)])
    IN  Flatten([c \in 1..Len(CourseOrder) |->
            Flatten([i \in 1..n |-> rows_at(res, CourseOrder[c], i)])])

\* Assessment Result JOIN Student Group Student of group g: one joined row
\* per (result, membership row of its student in g).
group_results(d, g) ==
    Flatten([a \in 1..Len(arTable) |->
        IF ar_filter(arTable[a], d)
        THEN [k \in 1..Len(SelectSeq(sgsTable,
                  LAMBDA m : <<m.parent>> = g /\ m.student = arTable[a].student))
                |-> arTable[a]]
        ELSE <<>>])

\* SELECT ar.total_score ... WHERE sgs.parent = g AND ar.course = c
class_scores(d, g, c) ==
    LET rs == SelectSeq(group_results(d, g), LAMBDA r : r.course = c)
    IN  [k \in 1..Len(rs) |-> rs[k].total_score]

\* SELECT ar.student, SUM(ar.total_score) ... GROUP BY ar.student: the totals
\* column.  The loop over it only counts, so the row order is immaterial.
RECURSIVE totals_of(_, _)
totals_of(rs, names) ==
    IF names = {} THEN <<>>
    ELSE LET s    == CHOOSE x \in names : TRUE
             mine == SelectSeq(rs, LAMBDA r : r.student = s)
         IN  <<SeqSum([k \in 1..Len(mine) |-> mine[k].total_score])>>
                 \o totals_of(rs, names \ {s})

class_arm_totals(d, g) ==
    LET rs == group_results(d, g)
    IN  totals_of(rs, {rs[k].student : k \in 1..Len(rs)})

-----------------------------------------------------------------------------
(* populate_student_result: the computations *)

\* course_details: the first joined row of every course, in first-seen order
RECURSIVE course_details(_, _)
course_details(rows, seen) ==
    IF rows = <<>> THEN <<>>
    ELSE IF Head(rows).course \in seen
         THEN course_details(Tail(rows), seen)
         ELSE <<Head(rows)>>
                  \o course_details(Tail(rows), seen \cup {Head(rows).course})

\* The subjects child table as first appended
subject_rows(rows) ==
    LET cd == course_details(rows, {})
    IN  [k \in 1..Len(cd) |->
            [subject |-> cd[k].course,
             total_score |-> cd[k].total_score,
             subject_position |-> "",
             class_highest_score |-> 0,
             class_lowest_score |-> 0,
             class_average_score |-> 0]]

\* The assessment_components child table
component_rows(rows) ==
    [k \in 1..Len(rows) |->
        [criteria |-> rows[k].assessment_criteria,
         score_obtained |-> rows[k].score,
         max_score |-> rows[k].maximum_score,
         subject |-> rows[k].course]]

\* Variant of subject_position that also counts the scores equal to the student's
RECURSIVE subject_position_counting_ties(_, _)
subject_position_counting_ties(scores_list, current_student_score) ==
    IF scores_list = <<>> THEN 1
    ELSE subject_position_counting_ties(Tail(scores_list), current_student_score)
             + (IF Head(scores_list) >= current_student_score THEN 1 ELSE 0)

\* position = 1; for score_value in scores_list: if score_value > current: += 1
RECURSIVE subject_position(_, _)
subject_position(scores_list, current_student_score) ==
    IF scores_list = <<>> THEN 1
    ELSE subject_position(Tail(scores_list), current_student_score)
             + (IF Head(scores_list) > current_student_score THEN 1 ELSE 0)

\* Step 7 for one subject row
class_stats(d, subject_row) ==
    IF d.student_group # <<>> /\ subject_row.subject # ""
    THEN LET scores_list == class_scores(d, d.student_group, subject_row.subject)
         IN  IF scores_list # <<>>
             THEN [subject_row EXCEPT
                     !.class_highest_score = SeqMax(scores_list),
                     !.class_lowest_score = SeqMin(scores_list),
                     !.class_average_score =
                         round_(100 * SeqSum(scores_list), Len(scores_list)),
                     !.subject_position =
                         str(subject_position(scores_list, subject_row.total_score))]
             ELSE subject_row
    ELSE subject_row

\* Step 8: sum of the subjects' total_score
total_marks(subjects) ==
    SeqSum([k \in 1..Len(subjects) |-> subjects[k].total_score])

\* Step 8: sum of the components' max_score
max_marks(components) ==
    SeqSum([k \in 1..Len(components) |-> components[k].max_score])

\* Variant of term_average that cuts the quotient off instead of rounding it
term_average_truncated(d, total, max) ==
    IF max > 0 THEN <<(10000 * total) \div max>> ELSE d.term_average

\* Step 8: doc.term_average, in hundredths of a percent
term_average(d, total, max) ==
    IF max > 0 THEN <<round_(10000 * total, max)>> ELSE d.term_average

\* The fallback scale (avg in hundredths of a percent)
fallback_grade(avg) ==
    IF avg >= 8000 THEN "A"
    ELSE IF avg >= 7000 THEN "B"
    ELSE IF avg >= 6000 THEN "C"
    ELSE IF avg >= 5000 THEN "D"
    ELSE "F"

\* The scan of overall_grading_scale: first band holding avg, else "N/A"
RECURSIVE scale_grade(_, _)
scale_grade(scale, avg) ==
    IF scale = <<>> THEN "N/A"
    ELSE LET grade_row == Head(scale)
             min_pct == grade_row.min_percentage
             max_pct == IF grade_row.max_percentage = 0 THEN 100
                        ELSE grade_row.max_percentage
         IN  IF 100 * min_pct <= avg /\ avg <= 100 * max_pct
             THEN grade_row.grade_code
             ELSE scale_grade(Tail(scale), avg)

\* Step 9: doc.overall_grade
overall_grade(d) ==
    IF d.term_average # <<>> /\ d.term_average[1] # 0
    THEN IF ~settings.exists
         THEN <<"N/A">>                      \* get_doc raises: the except branch
         ELSE IF settings.overall_grading_scale # <<>>
              THEN <<scale_grade(settings.overall_grading_scale, d.term_average[1])>>
              ELSE <<fallback_grade(d.term_average[1])>>
    ELSE d.overall_grade

\* arm_position = 1; for total_row in totals: if total_row[1] > own: += 1
RECURSIVE arm_position(_, _)
arm_position(totals, student_total_marks) ==
    IF totals = <<>> THEN 1
    ELSE arm_position(Tail(totals), student_total_marks)
             + (IF Head(totals) > student_total_marks THEN 1 ELSE 0)

\* Step 10: doc.class_arm_position
class_arm_position(d) ==
    IF d.student_group # <<>>
    THEN LET totals == class_arm_totals(d, d.student_group)
         IN  IF totals # <<>>
             THEN <<arm_position(totals, d.total_marks_obtained[1])>>
             ELSE d.class_arm_position
    ELSE d.class_arm_position

\* Step 4: group membership and class size
group_info(d) ==
    LET sgs == sgs_of_student(d.student)
    IN  IF sgs # <<>>
        THEN [d EXCEPT
                !.student_group = <<sgs[1].parent>>,
                !.number_of_students_in_class_group =
                    <<Len(sgs_of_parent(<<sgs[1].parent>>))>>]
        ELSE d

\* Steps 6 to 10 when the student has assessment results
with_results(d, rows) ==
    LET subjects0  == subject_rows(rows)
        components == component_rows(rows)
        d7  == [d EXCEPT
                  !.subjects = [k \in 1..Len(subjects0) |-> class_stats(d, subjects0[k])],
                  !.assessment_components = components]
        d8  == [d7 EXCEPT
                  !.total_marks_obtained = <<total_marks(d7.subjects)>>,
                  !.total_max_marks = <<max_marks(d7.assessment_components)>>]
        d8a == [d8 EXCEPT
                  !.term_average = term_average(d8, d8.total_marks_obtained[1],
                                                d8.total_max_marks[1])]
        d9  == [d8a EXCEPT !.overall_grade = overall_grade(d8a)]
    IN  [d9 EXCEPT !.class_arm_position = class_arm_position(d9)]

\* Variant of populate_student_result that runs steps 6 to 10 whether or not
\* the student has assessment results
populate_without_results_test(d0) ==
    LET d3   == [d0 EXCEPT !.student_admission_id = d0.student]
        d4   == group_info(d3)
        rows == detailed_results(d4)
        d6   == [d4 EXCEPT !.subjects = <<>>, !.assessment_components = <<>>]
    IN  with_results(d6, rows)

\* populate_student_result(doc): the document as the call leaves it
populate_student_result(d0) ==
    LET d3   == [d0 EXCEPT !.student_admission_id = d0.student]
        d4   == group_info(d3)
        rows == detailed_results(d4)
        d6   == [d4 EXCEPT !.subjects = <<>>, !.assessment_components = <<>>]
    IN  IF rows # <<>> THEN with_results(d6, rows) ELSE d6

\* The notices populate_student_result emits through frappe.msgprint
populate_notices(d0) ==
    (IF sgs_of_student(d0.student) = <<>>
     THEN <<[kind |-> "No Student Group found", about |-> d0.student]>>
     ELSE <<>>)
    \o
    (IF detailed_results(d0) = <<>>
     THEN <<[kind |-> "No Assessment Results found", about |-> d0.student]>>
     ELSE <<>>)

-----------------------------------------------------------------------------
(* generate_class_results *)

\* Variant of filters_set that forgets the academic term
filters_set_without_term(g) ==
    /\ g.assessment_group # <<>>
    /\ g.academic_year # <<>>
    /\ g.student_group # <<>>

\* The required-filters test of the generator document
filters_set(g) ==
    /\ g.assessment_group # <<>>
    /\ g.academic_year # <<>>
    /\ g.academic_term # <<>>
    /\ g.student_group # <<>>

\* The stub built for one student of the listing
result_stub(g, student_id) ==
    [new_doc EXCEPT
        !.student = <<student_id>>,
        !.assessment_group = g.assessment_group,
        !.academic_year = g.academic_year,
        !.academic_term = g.academic_term]

\* The call up to the loop: the filter test, the listing, the empty-group return
GenStart ==
    /\ pc = "idle"
    /\ runs < MaxRuns
    /\ runs' = runs + 1
    /\ call' = "generate"
    /\ startLen' = Len(committed)
    /\ doc' = <<>>
    /\ idx' = 1
    /\ IF ~filters_set(generator_doc)
       THEN /\ raised' = "ValidationError"
            /\ msgs' = <<>>
            /\ students' = <<>>
            /\ pc' = "idle"
            /\ UNCHANGED completed
       ELSE LET listing == sgs_of_parent(generator_doc.student_group)
            IN  /\ raised' = ""
                /\ students' = listing
                /\ IF listing = <<>>
                   THEN /\ msgs' = <<[kind |-> "No students found",
                                      about |-> generator_doc.student_group]>>
                        /\ pc' = "idle"
                        /\ completed' = completed + 1
                   ELSE /\ msgs' = <<>>
                        /\ pc' = "loop"
                        /\ UNCHANGED completed
    /\ UNCHANGED <<settings, sgsTable, arTable, generator_doc, committed, pending>>

\* Variant of GenStudent that skips a student who already has a record for
\* the same assessment group, year and term
GenStudentSkipExisting ==
    /\ pc = "loop"
    /\ idx <= Len(students)
    /\ LET stub == result_stub(generator_doc, students[idx].student)
           have == \E i \in 1..Len(committed) :
                       /\ committed[i].student = stub.student
                       /\ committed[i].assessment_group = stub.assessment_group
                       /\ committed[i].academic_year = stub.academic_year
                       /\ committed[i].academic_term = stub.academic_term
       IN  /\ pending' = IF have THEN pending
                         ELSE Append(pending, populate_student_result(stub))
           /\ msgs' = msgs \o populate_notices(stub)
    /\ pc' = "inserted"
    /\ UNCHANGED <<settings, sgsTable, arTable, generator_doc, committed, students,
                   idx, startLen, runs, completed, raised, doc, call>>

\* One pass of the loop body up to result_doc.insert()
GenStudent ==
    /\ pc = "loop"
    /\ idx <= Len(students)
    /\ LET stub == result_stub(generator_doc, students[idx].student)
       IN  /\ pending' = Append(pending, populate_student_result(stub))
           /\ msgs' = msgs \o populate_notices(stub)
    /\ pc' = "inserted"
    /\ UNCHANGED <<settings, sgsTable, arTable, generator_doc, committed, students,
                   idx, startLen, runs, completed, raised, doc, call>>

\* Variant of GenCommit that leaves the commit to the end of the batch
GenCommitDeferred ==
    /\ pc = "inserted"
    /\ idx' = idx + 1
    /\ pc' = "loop"
    /\ UNCHANGED <<settings, sgsTable, arTable, generator_doc, committed, pending,
                   students, startLen, runs, completed, msgs, raised, doc, call>>

\* frappe.db.commit() closing the loop body
GenCommit ==
    /\ pc = "inserted"
    /\ committed' = committed \o pending
    /\ pending' = <<>>
    /\ idx' = idx + 1
    /\ pc' = "loop"
    /\ UNCHANGED <<settings, sgsTable, arTable, generator_doc, students, startLen,
                   runs, completed, msgs, raised, doc, call>>

\* The count message after the loop
GenFinish ==
    /\ pc = "loop"
    /\ idx > Len(students)
    /\ msgs' = Append(msgs, [kind |-> "Generated results",
                             count |-> str(Len(students)),
                             about |-> generator_doc.student_group])
    /\ completed' = completed + 1
    /\ pc' = "idle"
    /\ UNCHANGED <<settings, sgsTable, arTable, generator_doc, committed, pending,
                   students, idx, startLen, runs, raised, doc, call>>

\* A fault (a database error, say) while student idx is processed: nothing in
\* the loop catches it, the call ends, and what was inserted but not
\* committed is rolled back with the request.
GenFault ==
    /\ pc \in {"loop", "inserted"}
    /\ idx <= Len(students)
    /\ raised' = "Error"
    /\ pending' = <<>>
    /\ pc' = "idle"
    /\ UNCHANGED <<settings, sgsTable, arTable, generator_doc, committed, students,
                   idx, startLen, runs, completed, msgs, doc, call>>

-----------------------------------------------------------------------------
(* populate_student_result called as a remote procedure *)

\* The tables never change here, so one call per behaviour shows all a call can do.
PopulateCall(s) ==
    /\ pc = "idle"
    /\ call = ""
    /\ LET stub == [new_doc EXCEPT
                       !.student = <<s>>,
                       !.assessment_group = <<AssessmentGroup>>,
                       !.academic_year = <<AcademicYear>>,
                       !.academic_term = <<AcademicTerm>>]
       IN  /\ doc' = populate_student_result(stub)
           /\ msgs' = populate_notices(stub)
    /\ raised' = ""
    /\ call' = "populate"
    /\ UNCHANGED <<settings, sgsTable, arTable, generator_doc, committed, pending,
                   pc, students, idx, startLen, runs, completed>>

-----------------------------------------------------------------------------
(* validate_assessment_criteria *)

\* Variant of validate_assessment_criteria without the empty-whitelist return
validate_without_empty_return(d) ==
    IF ~settings.exists THEN ""
    ELSE LET items == settings.assessment_criteria_item
             valid_criteria == [k \in 1..Len(items) |-> items[k].criteria_name]
         IN  IF \A k \in 1..Len(valid_criteria) :
                       valid_criteria[k] # d.assessment_criteria
             THEN "ValidationError"
             ELSE ""

\* The error the hook raises for document d, "" when it returns
validate_assessment_criteria(d) ==
    IF ~settings.exists THEN ""
    ELSE LET items == settings.assessment_criteria_item
             valid_criteria == [k \in 1..Len(items) |-> items[k].criteria_name]
         IN  IF valid_criteria = <<>> THEN ""
             ELSE IF \A k \in 1..Len(valid_criteria) :
                         valid_criteria[k] # d.assessment_criteria
                  THEN "ValidationError"
                  ELSE ""

ValidateCall(name) ==
    /\ pc = "idle"
    /\ doc' = [assessment_criteria |-> name]
    /\ raised' = validate_assessment_criteria([assessment_criteria |-> name])
    /\ msgs' = <<>>
    /\ call' = "validate"
    /\ UNCHANGED <<settings, sgsTable, arTable, generator_doc, committed, pending,
                   pc, students, idx, startLen, runs, completed>>

-----------------------------------------------------------------------------
(* Initial states *)

NoSettings == [exists |-> FALSE, overall_grading_scale |-> <<>>,
               assessment_criteria_item |-> <<>>]
BlankSettings == [NoSettings EXCEPT !.exists = TRUE]

\* Student Group Student rows: a student is listed at most once in a group
MembershipRows(gs, ss) == [parent : gs, student : ss]

\* An Assessment Result row with its detail rows
ResultRows(ss, cs, scores, dets, statuses) ==
    [student : ss, course : cs, assessment_group : {AssessmentGroup},
     academic_year : {AcademicYear}, academic_term : {AcademicTerm},
     docstatus : statuses, total_score : scores, details : dets]

DetailRow(max) == [assessment_criteria |-> "Exam", score |-> 0, maximum_score |-> max]

\* What no call has touched yet
InitCalls ==
    /\ pending = <<>>
    /\ pc = "idle"
    /\ students = <<>>
    /\ idx = 1
    /\ startLen = 0
    /\ runs = 0
    /\ completed = 0
    /\ msgs = <<>>
    /\ raised = ""
    /\ doc = <<>>
    /\ call = ""

\* The generator: any of its four filters may be unset
GeneratorDocs ==
    [assessment_group : {<<>>, <<AssessmentGroup>>},
     academic_year : {<<>>, <<AcademicYear>>},
     academic_term : {<<>>, <<AcademicTerm>>},
     student_group : {<<>>} \cup {<<g>> : g \in Groups}]

ValidGenerator ==
    [assessment_group |-> <<AssessmentGroup>>, academic_year |-> <<AcademicYear>>,
     academic_term |-> <<AcademicTerm>>, student_group |-> <<"g1">>]

\* A School Term Result left by an earlier assessment group
PriorResult ==
    [new_doc EXCEPT
        !.student = <<"s1">>,
        !.assessment_group = <<"ag0">>,
        !.academic_year = <<AcademicYear>>,
        !.academic_term = <<AcademicTerm>>]

InitGenerate ==
    /\ settings = BlankSettings
    /\ sgsTable \in DistinctSeqsUpTo(MembershipRows(Groups, Students), MaxRows)
    /\ arTable \in SeqsUpTo(ResultRows(Students, {"c1"}, {90}, {<<DetailRow(100)>>}, {1, 2}), 1)
    /\ generator_doc \in GeneratorDocs
    /\ committed \in {<<>>, <<PriorResult>>}
    /\ InitCalls

NextGenerate == GenStart \/ GenStudent \/ GenCommit \/ GenFinish \/ GenFault

SpecGenerate == InitGenerate /\ [][NextGenerate]_vars

\* Ranking: three students of one group, scores that tie in one course, a
\* second course beside it
InitRank ==
    /\ settings = BlankSettings
    /\ sgsTable \in DistinctSeqsUpTo(MembershipRows({"g1"}, Students), MaxRows)
    /\ arTable \in SeqsUpTo(
           ResultRows(Students, {"c1"}, {80, 90}, {<<DetailRow(100)>>}, {1})
               \cup ResultRows(Students, {"c2"}, {80}, {<<DetailRow(100)>>}, {1}),
           MaxResults)
    /\ generator_doc = ValidGenerator
    /\ committed = <<>>
    /\ InitCalls

NextPopulate == \E s \in Students : PopulateCall(s)

SpecRank == InitRank /\ [][NextPopulate]_vars

\* Totals, average and grade: one student's results (one of them cancelled),
\* their detail rows, the grading scale
GradeBands ==
    {[min_percentage |-> 80, max_percentage |-> 100, grade_code |-> "A"],
     [min_percentage |-> 0, max_percentage |-> 79, grade_code |-> "B"]}

GradeDetails ==
    {<<DetailRow(100)>>, <<DetailRow(0)>>, <<DetailRow(30), DetailRow(30)>>}

InitGrade ==
    /\ settings \in
         {NoSettings} \cup
         {[BlankSettings EXCEPT !.overall_grading_scale = sc] :
              sc \in SeqsUpTo(GradeBands, MaxBands)}
    /\ sgsTable \in {<<>>, <<[parent |-> "g1", student |-> "s1"]>>}
    /\ arTable \in SeqsUpTo(
           ResultRows({"s1"}, Courses, {0, 65, 85}, GradeDetails, {1})
               \cup ResultRows({"s1"}, {"c1"}, {85}, {<<DetailRow(100)>>}, {2}),
           MaxGradeResults)
    /\ generator_doc = ValidGenerator
    /\ committed = <<>>
    /\ InitCalls

SpecGrade == InitGrade /\ [][NextPopulate]_vars

\* The validation hook: the settings record and its whitelist
InitValidate ==
    /\ settings \in
         {[exists |-> e, overall_grading_scale |-> <<>>,
           assessment_criteria_item |-> [k \in 1..Len(w) |-> [criteria_name |-> w[k]]]] :
              e \in BOOLEAN, w \in SeqsUpTo(CriteriaNames \ {"Quiz"}, MaxItems)}
    /\ sgsTable = <<>>
    /\ arTable = <<>>
    /\ generator_doc = ValidGenerator
    /\ committed = <<>>
    /\ InitCalls

NextValidate == \E name \in CriteriaNames : ValidateCall(name)

SpecValidate == InitValidate /\ [][NextValidate]_vars

-----------------------------------------------------------------------------
(* Statements about generate_class_results, under SpecGenerate *)

\* The rows of the generator's student group: its K enrolled students
Roster == {i \in 1..Len(sgsTable) : <<sgsTable[i].parent>> = generator_doc.student_group}

\* The records of the generator's assessment group
Generated == {i \in 1..Len(committed) :
                 committed[i].assessment_group = <<AssessmentGroup>>}

\* The generator names all four of its filters
FourFiltersSet ==
    \A f \in {"assessment_group", "academic_year", "academic_term", "student_group"} :
        generator_doc[f] # <<>>

\* A call of generate_class_results has run to its end
GenDone == call = "generate" /\ pc = "idle" /\ raised = ""

\* C1: a call on a generator with all four filters set and a group of K
\* students that runs to its end adds exactly K records, one per student of
\* the group, whatever records exist already; with no call cut short, n calls
\* leave n * K records.
C1_AddsKRecords ==
    (GenDone /\ FourFiltersSet) =>
        /\ Len(committed) = startLen + Cardinality(Roster)
        /\ \A i, j \in (startLen + 1)..Len(committed) :
               i # j => committed[i].student # committed[j].student
        /\ \A i \in (startLen + 1)..Len(committed) :
               \E m \in Roster : committed[i].student = <<sgsTable[m].student>>
        /\ (runs = completed =>
               Cardinality(Generated) = completed * Cardinality(Roster))

C1_Witness ==
    /\ GenDone
    /\ completed = 2
    /\ Cardinality(Roster) = 3
    /\ Cardinality(Generated) = 6
    /\ Len(committed) = 7

\* C2: with any of the four filters unset the call raises a validation error
\* and writes nothing: no record is inserted or committed.
C2_NoWriteWithoutFilters ==
    [][(~FourFiltersSet) =>
          /\ raised' = "ValidationError"
          /\ pc' = "idle"
          /\ committed' = committed
          /\ pending' = <<>>
          /\ pending = <<>>]_vars

C2_Witness ==
    /\ call = "generate"
    /\ raised = "ValidationError"
    /\ generator_doc.academic_term = <<>>
    /\ generator_doc.student_group # <<>>
    /\ Roster # {}
    /\ committed = <<PriorResult>>

\* C3: a student's record is inserted and committed before the next student
\* is processed; a fault at the i-th student leaves exactly the records of
\* the i-1 earlier students durable, none of a later one, and no count message.
C3_PerStudentCommit ==
    /\ pc = "loop" => (pending = <<>> /\ Len(committed) = startLen + idx - 1)
    /\ pc = "inserted" =>
          /\ Len(committed) = startLen + idx - 1
          /\ Len(pending) = 1
          /\ pending[1].student = <<students[idx].student>>
    /\ (call = "generate" /\ pc = "idle" /\ raised = "Error") =>
          /\ pending = <<>>
          /\ Len(committed) = startLen + idx - 1
          /\ \A k \in 1..(idx - 1) :
                 committed[startLen + k].student = <<students[k].student>>
          /\ \A k \in 1..Len(msgs) : msgs[k].kind # "Generated results"

C3_Witness ==
    /\ call = "generate" /\ pc = "idle" /\ raised = "Error"
    /\ Len(students) = 3
    /\ idx = 3
    /\ startLen = 1
    /\ Len(committed) = 3

\* C10: every record generate_class_results creates carries the generator's
\* student group, the one whose roster was listed.
C10_RecordCarriesGeneratorGroup ==
    \A i \in Generated : committed[i].student_group = generator_doc.student_group

-----------------------------------------------------------------------------
(* Statements about populate_student_result, under SpecRank and SpecGrade *)

\* The members of group g
MembersOf(g) == {sgsTable[i].student : i \in {j \in 1..Len(sgsTable) : <<sgsTable[j].parent>> = g}}

\* The assessment results that count for the populated document: its
\* assessment group, year and term, draft or submitted
Counted ==
    {a \in 1..Len(arTable) :
        /\ arTable[a].docstatus # 2
        /\ arTable[a].assessment_group = AssessmentGroup
        /\ arTable[a].academic_year = AcademicYear
        /\ arTable[a].academic_term = AcademicTerm}

\* Those of student s
ResultsOf(s) == {a \in Counted : arTable[a].student = s}

\* Those of course c among the members of group g: the class scores
ClassResults(g, c) ==
    {a \in Counted : arTable[a].course = c /\ arTable[a].student \in MembersOf(g)}

RECURSIVE SumScores(_)
SumScores(as) ==
    IF as = {} THEN 0
    ELSE LET a == CHOOSE x \in as : TRUE
         IN  arTable[a].total_score + SumScores(as \ {a})

RECURSIVE SumMaxima(_)
SumMaxima(as) ==
    IF as = {} THEN 0
    ELSE LET a == CHOOSE x \in as : TRUE
             ds == arTable[a].details
         IN  SeqSum([k \in 1..Len(ds) |-> ds[k].maximum_score]) + SumMaxima(as \ {a})

\* populate_student_result has returned
Populated == call = "populate" /\ raised = ""

\* C4: for a subject of a populated record whose student has a group and whose
\* class has scores, subject_position is 1 + the number of class scores
\* strictly above the student's total for the subject; a total no class score
\* exceeds gets rank 1, ties with the top included.
C4_SubjectPosition ==
    Populated =>
        \A k \in 1..Len(doc.subjects) :
            LET row == doc.subjects[k]
                cls == ClassResults(doc.student_group, row.subject)
                above == {a \in cls : arTable[a].total_score > row.total_score}
            IN  (doc.student_group # <<>> /\ cls # {}) =>
                    /\ row.subject_position = str(1 + Cardinality(above))
                    /\ (\A a \in cls : arTable[a].total_score <= row.total_score)
                           => row.subject_position = "1"

\* Scores [90, 90, 80] in one course of one group: the student with 80 is third
C4_Witness ==
    /\ Populated
    /\ Len(sgsTable) = 3
    /\ Len(arTable) = 3
    /\ \A a \in 1..3 : arTable[a].course = "c1"
    /\ [a \in 1..3 |-> arTable[a].student] = <<"s1", "s2", "s3">>
    /\ [a \in 1..3 |-> arTable[a].total_score] = <<90, 90, 80>>
    /\ doc.student = <<"s3">>
    /\ doc.subjects[1].subject_position = "3"

\* C5: a member's class_arm_position is 1 + the number of members of the group
\* whose total (the sum over all their assessment results) is strictly higher
\* than the member's own total taken on the same basis.
C5_ArmPositionOnSameBasis ==
    (Populated /\ doc.class_arm_position # <<>>) =>
        doc.class_arm_position =
            <<1 + Cardinality({s \in MembersOf(doc.student_group) :
                     SumScores(ResultsOf(s)) > SumScores(ResultsOf(doc.student[1]))})>>

\* C6: whenever the term average was computed (sum of the component maxima
\* above 0) overall_grade is the code of the first band holding the average,
\* and the fallback grade when no band is configured.
C6_GradeForEveryAverage ==
    (Populated /\ settings.exists /\ doc.total_max_marks # <<>>
        /\ doc.term_average # <<>>) =>
        (doc.total_max_marks[1] > 0 =>
            LET avg   == doc.term_average[1]
                scale == settings.overall_grading_scale
                holds == {k \in 1..Len(scale) :
                             /\ 100 * scale[k].min_percentage <= avg
                             /\ avg <= 100 * scale[k].max_percentage}
            IN  /\ scale = <<>> =>
                       doc.overall_grade =
                           <<IF avg >= 8000 THEN "A" ELSE IF avg >= 7000 THEN "B"
                             ELSE IF avg >= 6000 THEN "C" ELSE IF avg >= 5000 THEN "D"
                             ELSE "F">>
                /\ holds # {} =>
                       doc.overall_grade =
                           <<scale[CHOOSE k \in holds : \A j \in holds : k <= j].grade_code>>)

\* C7: for a student with an assessment result, total_marks_obtained is the
\* sum of the subject totals, total_max_marks the sum of all component maxima,
\* term_average the percentage total / max to the nearest hundredth when
\* max > 0, and unset when max is 0.
C7_TotalsAndAverage ==
    (Populated /\ ResultsOf(doc.student[1]) # {}) =>
        LET subjectSum == SeqSum([k \in 1..Len(doc.subjects) |->
                                     doc.subjects[k].total_score])
            maxSum == SumMaxima(ResultsOf(doc.student[1]))
        IN  /\ doc.total_marks_obtained = <<subjectSum>>
            /\ doc.total_max_marks = <<maxSum>>
            /\ maxSum = SeqSum([k \in 1..Len(doc.assessment_components) |->
                                   doc.assessment_components[k].max_score])
            /\ IF maxSum > 0
               THEN /\ doc.term_average # <<>>
                    /\ LET diff == doc.term_average[1] * maxSum - 10000 * subjectSum
                       IN  2 * diff <= maxSum /\ 2 * (0 - diff) <= maxSum
               ELSE doc.term_average = <<>>

\* Two courses of 85 marks out of 30 + 30 each: 141.67 percent
C7_Witness ==
    /\ Populated
    /\ Len(doc.subjects) = 2
    /\ doc.total_marks_obtained = <<170>>
    /\ doc.total_max_marks = <<120>>
    /\ doc.term_average = <<14167>>

\* C8: when the student has no assessment result the call returns, says so in
\* a notice, leaves subjects and assessment_components empty and writes no
\* total, average, grade or rank, with or without a group.
C8_NoResults ==
    (call = "populate" /\ ResultsOf(doc.student[1]) = {}) =>
        /\ raised = ""
        /\ \E k \in 1..Len(msgs) : msgs[k].kind = "No Assessment Results found"
        /\ doc.subjects = <<>>
        /\ doc.assessment_components = <<>>
        /\ doc.total_marks_obtained = <<>>
        /\ doc.total_max_marks = <<>>
        /\ doc.term_average = <<>>
        /\ doc.overall_grade = <<>>
        /\ doc.class_arm_position = <<>>

C8_Witness ==
    /\ call = "populate"
    /\ arTable # <<>>
    /\ ResultsOf(doc.student[1]) = {}
    /\ doc.student_group = <<"g1">>
    /\ doc.number_of_students_in_class_group = <<1>>

-----------------------------------------------------------------------------
(* Statement about validate_assessment_criteria, under SpecValidate *)

\* The names on the whitelist of School Settings
Whitelist ==
    {settings.assessment_criteria_item[k].criteria_name :
        k \in 1..Len(settings.assessment_criteria_item)}

\* C9: the hook raises exactly when the settings record exists, its whitelist
\* is non-empty and the criteria name is not on it.
C9_RaisesIffNotWhitelisted ==
    call = "validate" =>
        /\ raised \in {"", "ValidationError"}
        /\ raised = "ValidationError" <=>
              /\ settings.exists
              /\ Whitelist # {}
              /\ doc.assessment_criteria \notin Whitelist

C9_Witness ==
    /\ call = "validate"
    /\ raised = "ValidationError"
    /\ Whitelist = {"Exam", "Test"}
    /\ doc.assessment_criteria = "Quiz"

====
